---- MODULE Spec2Model ----
(***************************************************************************)
(* A model of pytest_changed.py: the diff scanner (get_changed_names), the *)
(* change-set builder (get_changed_files_with_functions and its helpers)   *)
(* and the two pytest hooks that use them.                                 *)
(*                                                                         *)
(* Python strings are modelled as sequences of one-character strings, so   *)
(* that substring tests, regular-expression searches and os.path.join are  *)
(* computed character by character as the code computes them.              *)
(***************************************************************************)
EXTENDS Integers, Sequences, FiniteSets, TLC

VARIABLES
    pc,                      \* position of the modelled call sequence
    diff,                    \* get_changed_names: the diff body, as its lines
    scanned,                 \* get_changed_names: the returned list
    file_path,               \* _is_test_file: first argument
    is_test,                 \* _is_test_file: returned value
    changed_files,           \* filter_for_arguments: the map passed in
    filtered,                \* filter_for_arguments: the returned map
    option_changed,          \* config.getoption("changed")
    config_args,             \* config.args
    python_files,            \* config._getini("python_files")
    modified,                \* diff_index.iter_change_type('M')
    added,                   \* diff_index.iter_change_type('A')
    renamed,                 \* diff_index.iter_change_type('R')
    changed,                 \* get_changed_files_with_functions: returned map
    displayed,               \* the map pytest_configure hands to _display_affected_tests
    changed_files_and_funcs, \* the map pytest_collection_modifyitems computes
    collected,               \* the items list as pytest passed it to the hook
    items,                   \* the items list (modified in place by the hook)
    run,                     \* pytest_collection_modifyitems: run
    deselected               \* the list passed to config.hook.pytest_deselected

vars == <<pc, diff, scanned, file_path, is_test, changed_files, filtered,
          option_changed, config_args, python_files, modified, added, renamed,
          changed, displayed, changed_files_and_funcs, collected, items, run,
          deselected>>

scanVars   == <<diff, scanned>>
fileVars   == <<file_path, is_test>>
filterVars == <<changed_files, filtered>>
repoVars   == <<modified, added, renamed>>
hookVars   == <<option_changed, displayed, changed_files_and_funcs, collected,
                items, run, deselected>>

-----------------------------------------------------------------------------
(* Strings *)

Lowers == <<"a","b","c","d","e","f","g","h","i","j","k","l","m",
            "n","o","p","q","r","s","t","u","v","w","x","y","z">>
Uppers == <<"A","B","C","D","E","F","G","H","I","J","K","L","M",
            "N","O","P","Q","R","S","T","U","V","W","X","Y","Z">>
Digits == {"0","1","2","3","4","5","6","7","8","9"}

Range(s) == {s[i] : i \in DOMAIN s}

UpperChars == Range(Uppers)

\* str.lower() on one character, then on a string
LowerChar(c) ==
    IF c \in UpperChars
    THEN Lowers[CHOOSE i \in DOMAIN Uppers : Uppers[i] = c]
    ELSE c

RECURSIVE LowerStr(_)
LowerStr(s) == IF s = <<>> THEN <<>> ELSE <<LowerChar(Head(s))>> \o LowerStr(Tail(s))

\* the character class [a-zA-Z_0-9] of MATCH_PATTERN
IdentChars == Range(Lowers) \cup Range(Uppers) \cup Digits \cup {"_"}

IsIdentChar(c) == c \in IdentChars

\* the character class \s
IsSpace(c) == c \in {" ", "\t"}

\* Python's  sub in s  on strings
Contains(s, sub) ==
    \E i \in 1..(Len(s) - Len(sub) + 1) : SubSeq(s, i, i + Len(sub) - 1) = sub

\* str.startswith
StartsWith(s, prefix) ==
    Len(s) >= Len(prefix) /\ SubSeq(s, 1, Len(prefix)) = prefix

\* str.strip(): leading and trailing whitespace removed
Strip(s) ==
    LET keep == {i \in DOMAIN s : ~IsSpace(s[i])}
    IN  IF keep = {} THEN <<>>
        ELSE SubSeq(s, CHOOSE i \in keep : \A j \in keep : i <= j,
                       CHOOSE i \in keep : \A j \in keep : j <= i)

-----------------------------------------------------------------------------
(* _remove_duplicates *)

RECURSIVE RemoveDuplicatesFrom(_, _, _)
RemoveDuplicatesFrom(seq, i, seen) ==
    IF i > Len(seq) THEN <<>>
    ELSE IF seq[i] \in seen
         THEN RemoveDuplicatesFrom(seq, i + 1, seen)
         ELSE <<seq[i]>> \o RemoveDuplicatesFrom(seq, i + 1, seen \cup {seq[i]})

KeepDuplicates(seq) == seq

_remove_duplicates(seq) == RemoveDuplicatesFrom(seq, 1, {})

-----------------------------------------------------------------------------
(* get_changed_names *)

KwDef   == <<"d","e","f">>
KwClass == <<"c","l","a","s","s">>
TestStr == <<"t","e","s","t">>

\* positions where (?:def|class)\s matches in line, as <<start, first index
\* after the whitespace character>>
KeywordAt(line, i) ==
    IF /\ i + 3 <= Len(line)
       /\ SubSeq(line, i, i + 2) = KwDef
       /\ IsSpace(line[i + 3])
    THEN i + 4
    ELSE IF /\ i + 5 <= Len(line)
            /\ SubSeq(line, i, i + 4) = KwClass
            /\ IsSpace(line[i + 5])
         THEN i + 6
         ELSE 0

\* the longest run of [a-zA-Z_0-9] starting at index from
IdentRun(line, from) ==
    LET stops == {j \in from..Len(line) : ~IsIdentChar(line[j])}
        end   == IF stops = {} THEN Len(line)
                 ELSE (CHOOSE j \in stops : \A k \in stops : j <= k) - 1
    IN  SubSeq(line, from, end)

\* re.search(MATCH_PATTERN, line): the leading .* is greedy, so the keyword
\* taken is the rightmost one; the group is the identifier run after it.
\* matched = FALSE stands for None.
MatchPattern(line) ==
    LET hits == {i \in DOMAIN line : KeywordAt(line, i) # 0}
    IN  IF hits = {} THEN [matched |-> FALSE, group |-> <<>>]
        ELSE LET i == CHOOSE h \in hits : \A k \in hits : k <= h
             IN  [matched |-> TRUE, group |-> IdentRun(line, KeywordAt(line, i))]

\* "test" in name.lower()
AnyName(name) == TRUE

IsTestName(name) == Contains(LowerStr(name), TestStr)

\* line.startswith("+") or line.startswith("-")
IsChangeLine(line) == StartsWith(line, <<"+">>) \/ StartsWith(line, <<"-">>)

\* one iteration of the loop body on the state [current_name, changed]
ScanLineNoContinue(st, line) ==
    LET match == MatchPattern(line)
        name  == Strip(match.group)
        cur   == IF match.matched /\ IsTestName(name) THEN name ELSE st.current_name
    IN  [current_name |-> cur,
         changed |-> IF cur # <<>> /\ IsChangeLine(line)
                     THEN Append(st.changed, cur) ELSE st.changed]

ScanLine(st, line) ==
    LET match == MatchPattern(line)
        name  == Strip(match.group)
    IN  IF match.matched /\ IsTestName(name)
        THEN [st EXCEPT !.current_name = name]
        ELSE IF st.current_name # <<>> /\ IsChangeLine(line)
             THEN [st EXCEPT !.changed = Append(st.changed, st.current_name)]
             ELSE st

RECURSIVE ScanLines(_, _, _)
ScanLines(lines, i, st) ==
    IF i > Len(lines) THEN st
    ELSE ScanLines(lines, i + 1, ScanLine(st, lines[i]))

get_changed_names(d) ==
    _remove_duplicates(
        ScanLines(d, 1, [current_name |-> <<>>, changed |-> <<>>]).changed)

-----------------------------------------------------------------------------
(* Regular expressions: the fragment of Python's re syntax that            *)
(* _is_test_file builds (literals, \c, ., ^, x*, groups, alternation).     *)
(* The pattern text is read into tokens once and matched by backtracking.  *)

\* the tokens of the pattern text re from index k on
RECURSIVE Tokens(_, _)
Tokens(re, k) ==
    IF k > Len(re) THEN <<>>
    ELSE IF re[k] = "\\" /\ k < Len(re)
         THEN <<[t |-> "lit", c |-> re[k + 1]]>> \o Tokens(re, k + 2)
    ELSE IF re[k] \in {"(", ")", "|", "*", ".", "^"}
         THEN <<[t |-> re[k], c |-> ""]>> \o Tokens(re, k + 1)
    ELSE <<[t |-> "lit", c |-> re[k]]>> \o Tokens(re, k + 1)

\* nesting depth of every token: the number of groups open around it
RECURSIVE Depths(_, _, _)
Depths(tk, k, open) ==
    IF k > Len(tk) THEN <<>>
    ELSE IF tk[k].t = "(" THEN <<open>> \o Depths(tk, k + 1, open + 1)
    ELSE IF tk[k].t = ")" THEN <<open - 1>> \o Depths(tk, k + 1, open - 1)
    ELSE <<open>> \o Depths(tk, k + 1, open)

\* last index of the atom starting at lo: a group runs to its closing ")"
AtomEnd(tk, dp, lo, hi) ==
    IF tk[lo].t = "("
    THEN LET cs == {k \in (lo + 1)..hi : tk[k].t = ")" /\ dp[k] = dp[lo]}
         IN  CHOOSE k \in cs : \A j \in cs : k <= j
    ELSE lo

RECURSIVE AltEnds(_, _, _, _, _, _), ConcatEnds(_, _, _, _, _, _),
          AtomEnds(_, _, _, _, _, _), StarEnds(_, _, _, _, _, _)

\* AltEnds(tk, dp, lo, hi, s, i): the positions of s at which a match of
\* tk[lo..hi] that starts at position i can end; alternation binds weakest
AltEnds(tk, dp, lo, hi, s, i) ==
    LET bars == {k \in lo..hi : tk[k].t = "|" /\ dp[k] = dp[lo]}
    IN  IF lo > hi \/ bars = {} THEN ConcatEnds(tk, dp, lo, hi, s, i)
        ELSE LET k == CHOOSE b \in bars : \A j \in bars : b <= j
             IN  ConcatEnds(tk, dp, lo, k - 1, s, i)
                     \cup AltEnds(tk, dp, k + 1, hi, s, i)

ConcatEnds(tk, dp, lo, hi, s, i) ==
    IF lo > hi THEN {i}
    ELSE LET ae   == AtomEnd(tk, dp, lo, hi)
             star == ae + 1 <= hi /\ tk[ae + 1].t = "*"
             mids == IF star THEN StarEnds(tk, dp, lo, ae, s, {i})
                     ELSE AtomEnds(tk, dp, lo, ae, s, i)
             rest == IF star THEN ae + 2 ELSE ae + 1
         IN  UNION {ConcatEnds(tk, dp, rest, hi, s, m) : m \in mids}

AtomEnds(tk, dp, lo, ae, s, i) ==
    IF tk[lo].t = "(" THEN AltEnds(tk, dp, lo + 1, ae - 1, s, i)
    ELSE IF tk[lo].t = "^" THEN (IF i = 1 THEN {i} ELSE {})
    ELSE IF tk[lo].t = "." THEN (IF i <= Len(s) /\ s[i] # "\n" THEN {i + 1} ELSE {})
    ELSE IF i <= Len(s) /\ s[i] = tk[lo].c THEN {i + 1} ELSE {}

\* zero or more repetitions of the atom tk[lo..ae], from any position of from
StarEnds(tk, dp, lo, ae, s, from) ==
    LET more == from \cup UNION {AtomEnds(tk, dp, lo, ae, s, p) : p \in from}
    IN  IF more = from THEN from ELSE StarEnds(tk, dp, lo, ae, s, more)

\* bool(re.search(re, s))
Search(re, s) ==
    LET tk == Tokens(re, 1)
        dp == Depths(tk, 1, 0)
    IN  \E i \in 1..(Len(s) + 1) : AltEnds(tk, dp, 1, Len(tk), s, i) # {}

-----------------------------------------------------------------------------
(* _is_test_file *)

\* str.replace(c, rep) for a one-character c
RECURSIVE Replace(_, _, _)
Replace(s, c, rep) ==
    IF s = <<>> THEN <<>>
    ELSE (IF Head(s) = c THEN rep ELSE <<Head(s)>>) \o Replace(Tail(s), c, rep)

\* sep.join(list)
RECURSIVE Join(_, _)
Join(sep, list) ==
    IF list = <<>> THEN <<>>
    ELSE IF Len(list) = 1 THEN list[1]
    ELSE list[1] \o sep \o Join(sep, Tail(list))

\* item.replace(".", r"\.").replace("*", ".*")
Translate(item) == Replace(Replace(item, ".", <<"\\", ".">>), "*", <<".", "*">>)

AnchorPrefix == <<"(", "\\", "/", "|", "^", ")">>

_is_test_file(path, test_file_convention) ==
    LET re_list   == [k \in DOMAIN test_file_convention |->
                         Translate(test_file_convention[k])]
        re_string == AnchorPrefix \o Join(<<"|">>, re_list)
    IN  Search(re_string, path)

-----------------------------------------------------------------------------
(* dict: a sequence of [key, value] entries in insertion order *)

DictKeys(d) == [i \in DOMAIN d |-> d[i].key]

DictHas(d, k) == \E i \in DOMAIN d : d[i].key = k

DictGet(d, k) == d[CHOOSE i \in DOMAIN d : d[i].key = k].value

\* d[k] = v
DictSet(d, k, v) ==
    IF DictHas(d, k)
    THEN [i \in DOMAIN d |-> IF d[i].key = k THEN [key |-> k, value |-> v] ELSE d[i]]
    ELSE Append(d, [key |-> k, value |-> v])

\* del d[k]
DictDel(d, k) == SelectSeq(d, LAMBDA e : e.key # k)

-----------------------------------------------------------------------------
(* filter_for_arguments *)

RECURSIVE FilterPaths(_, _, _, _)
FilterPaths(acc, config_arg, files, j) ==
    IF j > Len(files) THEN acc
    ELSE FilterPaths(IF Contains(files[j].key, config_arg)
                     THEN DictSet(acc, files[j].key, files[j].value)
                     ELSE acc,
                     config_arg, files, j + 1)

RECURSIVE FilterArgs(_, _, _, _)
FilterArgs(acc, args, files, i) ==
    IF i > Len(args) THEN acc
    ELSE FilterArgs(FilterPaths(acc, args[i], files, 1), args, files, i + 1)

\* the loop over the arguments left after its first round
FilterFirstArgOnly(args, files) ==
    IF args = <<>> THEN files
    ELSE FilterPaths(<<>>, args[1], files, 1)

filter_for_arguments(args, files) ==
    IF args = <<>> THEN files
    ELSE FilterArgs(<<>>, args, files, 1)

-----------------------------------------------------------------------------
(* get_changed_files_with_functions *)

\* str(config.rootdir)
root_dir == <<"/", "r">>

\* path.rsplit("/")[-1]
Basename(path) ==
    LET slashes == {i \in DOMAIN path : path[i] = "/"}
    IN  IF slashes = {} THEN path
        ELSE SubSeq(path, (CHOOSE i \in slashes : \A j \in slashes : j <= i) + 1,
                    Len(path))

\* os.path.join(a, p)
PathJoin(a, p) ==
    IF StartsWith(p, <<"/">>) THEN p
    ELSE IF a = <<>> \/ a[Len(a)] = "/" THEN a \o p
    ELSE a \o <<"/">> \o p

\* body of  for diff in _modified
ModifiedStep(acc, d, convention) ==
    IF _is_test_file(Basename(d.a_path), convention)
    THEN DictSet(acc, PathJoin(root_dir, d.a_path), get_changed_names(d.diff))
    ELSE acc

\* body of  for diff in _added
AddedStepUnchecked(acc, d, convention) ==
    DictSet(acc, PathJoin(root_dir, d.b_path), get_changed_names(d.diff))

AddedStep(acc, d, convention) ==
    IF _is_test_file(Basename(d.b_path), convention)
    THEN DictSet(acc, PathJoin(root_dir, d.b_path), get_changed_names(d.diff))
    ELSE acc

\* body of  for diff in _renamed
RenamedStepKeepOld(acc, d, convention) ==
    IF _is_test_file(Basename(d.b_path), convention)
    THEN DictSet(acc, PathJoin(root_dir, d.b_path), get_changed_names(d.diff))
    ELSE acc

RenamedStep(acc, d, convention) ==
    IF _is_test_file(Basename(d.b_path), convention)
    THEN LET full_a_path == PathJoin(root_dir, d.a_path)
             full_b_path == PathJoin(root_dir, d.b_path)
             names       == get_changed_names(d.diff)
         IN  IF DictHas(acc, full_a_path)
             THEN DictSet(DictSet(DictDel(acc, full_a_path), full_b_path, names),
                          full_b_path, names)
             ELSE DictSet(acc, full_b_path, names)
    ELSE acc

RECURSIVE ModifiedLoop(_, _, _, _)
ModifiedLoop(acc, list, i, convention) ==
    IF i > Len(list) THEN acc
    ELSE ModifiedLoop(ModifiedStep(acc, list[i], convention), list, i + 1, convention)

RECURSIVE AddedLoop(_, _, _, _)
AddedLoop(acc, list, i, convention) ==
    IF i > Len(list) THEN acc
    ELSE AddedLoop(AddedStep(acc, list[i], convention), list, i + 1, convention)

RECURSIVE RenamedLoop(_, _, _, _)
RenamedLoop(acc, list, i, convention) ==
    IF i > Len(list) THEN acc
    ELSE RenamedLoop(RenamedStep(acc, list[i], convention), list, i + 1, convention)

\* the local  changed  when the three loops are over (line 129)
ChangedBeforeFilter(convention, _modified, _added, _renamed) ==
    RenamedLoop(
        AddedLoop(
            ModifiedLoop(<<>>, _modified, 1, convention),
            _added, 1, convention),
        _renamed, 1, convention)

get_changed_files_with_functions(args, convention, _modified, _added, _renamed) ==
    filter_for_arguments(args,
        ChangedBeforeFilter(convention, _modified, _added, _renamed))

-----------------------------------------------------------------------------
(* pytest_collection_modifyitems: the selection loops *)

\* item.cls is None
NoClass == <<>>

\* the test at lines 44-50 that sends the item to run
NameSelectsOwnNameOnly(item, name) == name = item.name

NameSelects(item, name) ==
    IF item.cls # NoClass
    THEN name = item.cls \/ name = item.name
    ELSE name = item.name

RECURSIVE NamesLoop(_, _, _, _)
NamesLoop(acc, item, names, k) ==
    IF k > Len(names) THEN acc
    ELSE NamesLoop(IF NameSelects(item, names[k])
                   THEN [acc EXCEPT !.run = Append(@, item)]
                   ELSE [acc EXCEPT !.deselected = Append(@, item)],
                   item, names, k + 1)

RECURSIVE FilesLoop(_, _, _, _)
FilesLoop(acc, item, files, j) ==
    IF j > Len(files) THEN acc
    ELSE FilesLoop(IF Contains(files[j].key, item.path)
                   THEN NamesLoop(acc, item, files[j].value, 1)
                   ELSE acc,
                   item, files, j + 1)

RECURSIVE ItemsLoop(_, _, _, _)
ItemsLoop(acc, its, files, i) ==
    IF i > Len(its) THEN acc
    ELSE ItemsLoop(FilesLoop(acc, its[i], files, 1), its, files, i + 1)

\* run and deselected when the loop at lines 39-51 is over
Select(its, files) == ItemsLoop([run |-> <<>>, deselected |-> <<>>], its, files, 1)

-----------------------------------------------------------------------------
(* Values of the variables a specification does not use *)

Idle == <<>>

IdleScan   == diff = Idle /\ scanned = Idle
IdleFile   == file_path = Idle /\ is_test = FALSE
IdleFilter == changed_files = Idle /\ filtered = Idle
IdleRepo   == modified = Idle /\ added = Idle /\ renamed = Idle
IdleHooks  == /\ option_changed = FALSE /\ displayed = Idle
              /\ changed_files_and_funcs = Idle /\ collected = Idle
              /\ items = Idle /\ run = Idle /\ deselected = Idle

SeqsUpTo(S, n) == UNION {[1..k -> S] : k \in 0..n}

-----------------------------------------------------------------------------
(* SpecScan: get_changed_names applied to every diff body of up to
   MaxLines lines drawn from LinePool *)

MaxLines == 5

test_a == <<"t","e","s","t","_","a">>
test_b == <<"t","e","s","t","_","b">>
TestC  == <<"T","e","s","t","C">>
help   == <<"h","e","l","p">>

LinePool ==
    { <<" ","d","e","f"," ">> \o test_a \o <<"(",")",":">>,   \* context line declaring test_a
      <<"+","d","e","f"," ">> \o test_b \o <<"(",")",":">>,   \* added line declaring test_b
      <<" ","c","l","a","s","s"," ">> \o TestC \o <<":">>,    \* context line declaring TestC
      <<"-","d","e","f"," ">> \o help \o <<"(",")",":">>,     \* removed line declaring help
      <<"+"," ","x">>,                                        \* added line
      <<" "," ","y">> }                                       \* context line

InitScan ==
    /\ pc = "scan"
    /\ diff \in SeqsUpTo(LinePool, MaxLines)
    /\ scanned = Idle
    /\ IdleFile /\ IdleFilter /\ IdleRepo /\ IdleHooks
    /\ config_args = Idle /\ python_files = Idle /\ changed = Idle

GetChangedNames ==
    /\ pc = "scan"
    /\ scanned' = get_changed_names(diff)
    /\ pc' = "scanned"
    /\ UNCHANGED <<diff, fileVars, filterVars, repoVars, hookVars,
                   config_args, python_files, changed>>

NextScan == GetChangedNames

SpecScan == InitScan /\ [][NextScan]_vars

-----------------------------------------------------------------------------
(* SpecFile: _is_test_file applied to file names and conventions of one to
   MaxPatterns patterns *)

MaxPatterns == 2

Py == <<".", "p", "y">>

PatTestPrefix  == <<"t","e","s","t","_","*">> \o Py      \* test_*.py
PatTestSuffix  == <<"*","_","t","e","s","t">> \o Py      \* *_test.py
PatCheckPrefix == <<"c","h","k","_","*">> \o Py          \* chk_*.py

PatternPool == {PatTestPrefix, PatTestSuffix, PatCheckPrefix}

FilePool ==
    { test_a \o Py,                        \* test_a.py
      <<"x">> \o test_a \o Py,             \* xtest_a.py
      <<"d", "/">> \o test_a \o Py,        \* d/test_a.py
      <<"d", "/", "x">> \o test_a \o Py,   \* d/xtest_a.py
      <<"a", "_">> \o TestStr \o Py,       \* a_test.py
      <<"l", "i", "b">> \o Py }            \* lib.py

Conventions == SeqsUpTo(PatternPool, MaxPatterns) \ {<<>>}

InitFile ==
    /\ pc = "match"
    /\ file_path \in FilePool
    /\ python_files \in Conventions
    /\ is_test = FALSE
    /\ IdleScan /\ IdleFilter /\ IdleRepo /\ IdleHooks
    /\ config_args = Idle /\ changed = Idle

IsTestFile ==
    /\ pc = "match"
    /\ is_test' = _is_test_file(file_path, python_files)
    /\ pc' = "matched"
    /\ UNCHANGED <<file_path, scanVars, filterVars, repoVars, hookVars,
                   config_args, python_files, changed>>

NextFile == IsTestFile

SpecFile == InitFile /\ [][NextFile]_vars

-----------------------------------------------------------------------------
(* SpecFilter: filter_for_arguments applied to argument lists of up to
   MaxArgs strings and to maps over KeyPool *)

MaxArgs == 2

ArgPool == { <<"d", "/">>, <<"l", "i", "b">> }

KeyPool == { PathJoin(root_dir, test_a \o Py),
             PathJoin(root_dir, <<"d", "/">> \o test_a \o Py),
             PathJoin(root_dir, <<"a", "_">> \o TestStr \o Py) }

NamesPool == { <<>>, <<test_a>> }

\* the dicts with keys in KeyPool: no key twice
Maps ==
    {m \in SeqsUpTo([key : KeyPool, value : NamesPool], Cardinality(KeyPool)) :
        \A i, j \in DOMAIN m : i # j => m[i].key # m[j].key}

InitFilter ==
    /\ pc = "filter"
    /\ config_args \in SeqsUpTo(ArgPool, MaxArgs)
    /\ changed_files \in Maps
    /\ filtered = Idle
    /\ IdleScan /\ IdleFile /\ IdleRepo /\ IdleHooks
    /\ python_files = Idle /\ changed = Idle

FilterForArguments ==
    /\ pc = "filter"
    /\ filtered' = filter_for_arguments(config_args, changed_files)
    /\ pc' = "filtered"
    /\ UNCHANGED <<changed_files, scanVars, fileVars, repoVars, hookVars,
                   config_args, python_files, changed>>

NextFilter == FilterForArguments

SpecFilter == InitFilter /\ [][NextFilter]_vars

-----------------------------------------------------------------------------
(* The repository diff: up to MaxRecords change records over PathPool.  A
   diff between two trees names every path of the new tree at most once, so
   no two records share their b_path. *)

MaxRecords == 3

PathPool == { test_a \o Py,                      \* test_a.py
              <<"d", "/">> \o test_a \o Py,      \* d/test_a.py
              <<"a", "_">> \o TestStr \o Py }    \* a_test.py

ContextDef(name) == <<" ","d","e","f"," ">> \o name \o <<"(",")",":">>
AddedDef(name)   == <<"+","d","e","f"," ">> \o name \o <<"(",")",":">>
ContextClass(name) == <<" ","c","l","a","s","s"," ">> \o name \o <<":">>
AddedLine == <<"+", " ", "x">>

\* scanned as <<test_a, TestC>> and as <<test_b>>
DiffPool == { <<ContextDef(test_a), AddedLine, ContextClass(TestC), AddedLine>>,
              <<AddedDef(test_b), AddedLine>> }

\* modified and added records: one path
SamePathRecords ==
    {[a_path |-> p, b_path |-> p, diff |-> d] : p \in PathPool, d \in DiffPool}

RenameRecords ==
    {r \in [a_path : PathPool, b_path : PathPool, diff : DiffPool] :
        r.a_path # r.b_path}

DistinctDestinations(m, a, r) ==
    LET all == m \o a \o r
    IN  \A i, j \in DOMAIN all : i # j => all[i].b_path # all[j].b_path

InitRepo ==
    \E m \in 0..MaxRecords : \E a \in 0..(MaxRecords - m) :
        \E r \in 0..(MaxRecords - m - a) :
            /\ modified \in [1..m -> SamePathRecords]
            /\ added \in [1..a -> SamePathRecords]
            /\ renamed \in [1..r -> RenameRecords]
            /\ DistinctDestinations(modified, added, renamed)

\* pytest's default python_files, by which every path of PathPool is a test
\* file, and a convention by which only a_test.py is one
DefaultConvention == <<PatTestPrefix, PatTestSuffix>>

ConventionPool == {DefaultConvention, <<PatTestSuffix>>}

-----------------------------------------------------------------------------
(* SpecBuild: get_changed_files_with_functions applied to every repository
   diff, argument list and convention *)

InitBuild ==
    /\ pc = "build"
    /\ InitRepo
    /\ config_args \in SeqsUpTo(ArgPool, MaxArgs)
    /\ python_files \in ConventionPool
    /\ changed = Idle
    /\ IdleScan /\ IdleFile /\ IdleFilter /\ IdleHooks

GetChangedFilesWithFunctions ==
    /\ pc = "build"
    /\ changed' = get_changed_files_with_functions(
                      config_args, python_files, modified, added, renamed)
    /\ pc' = "built"
    /\ UNCHANGED <<scanVars, fileVars, filterVars, repoVars, hookVars,
                   config_args, python_files>>

NextBuild == GetChangedFilesWithFunctions

SpecBuild == InitBuild /\ [][NextBuild]_vars

-----------------------------------------------------------------------------
(* Spec: a pytest session.  pytest_configure runs, pytest collects, and
   pytest_collection_modifyitems runs on up to MaxItems collected items. *)

MaxItems == 2

test_m == <<"t","e","s","t","_","m">>

ItemPool ==
    { [path |-> test_a \o Py, name |-> test_a, cls |-> NoClass],
      [path |-> test_a \o Py, name |-> test_m, cls |-> TestC],
      [path |-> <<"d", "/">> \o test_a \o Py, name |-> test_b, cls |-> NoClass] }

\* The hooks read the records only through the map the builder returns, and
\* every map the builder returns over PathPool is the map of modified records
\* alone: the session's diff holds modified records.
InitSessionRepo ==
    /\ \E m \in 0..MaxRecords : modified \in [1..m -> SamePathRecords]
    /\ added = <<>>
    /\ renamed = <<>>
    /\ DistinctDestinations(modified, added, renamed)

Init ==
    /\ pc = "start"
    /\ InitSessionRepo
    /\ option_changed \in BOOLEAN
    /\ config_args \in SeqsUpTo(ArgPool, MaxArgs)
    /\ python_files = DefaultConvention
    /\ displayed = Idle /\ changed_files_and_funcs = Idle
    /\ collected = Idle /\ items = Idle /\ run = Idle /\ deselected = Idle
    /\ changed = Idle
    /\ IdleScan /\ IdleFile /\ IdleFilter

pytest_configure ==
    /\ pc = "start"
    /\ pc' = "configured"
    /\ IF ~option_changed
       THEN UNCHANGED <<config_args, displayed>>
       ELSE LET files == get_changed_files_with_functions(
                             config_args, python_files, modified, added, renamed)
            IN  /\ config_args' = DictKeys(files)
                /\ displayed' = files
    /\ UNCHANGED <<scanVars, fileVars, filterVars, repoVars, python_files, changed,
                   option_changed, changed_files_and_funcs, collected, items, run,
                   deselected>>

pytest_collection_modifyitems ==
    /\ pc = "configured"
    /\ pc' = "collected"
    /\ \E its \in SeqsUpTo(ItemPool, MaxItems) :
        /\ collected' = its
        /\ IF ~option_changed
           THEN /\ items' = its
                /\ UNCHANGED <<changed_files_and_funcs, run, deselected>>
           ELSE LET files == get_changed_files_with_functions(
                                 config_args, python_files, modified, added, renamed)
                    marks == Select(its, files)
                IN  /\ changed_files_and_funcs' = files
                    /\ run' = _remove_duplicates(marks.run)
                    /\ deselected' = marks.deselected
                    /\ items' = _remove_duplicates(marks.run)
    /\ UNCHANGED <<scanVars, fileVars, filterVars, repoVars, python_files, changed,
                   option_changed, config_args, displayed>>

Next == pytest_configure \/ pytest_collection_modifyitems

Spec == Init /\ [][Next]_vars

-----------------------------------------------------------------------------
(* Properties *)

NoDuplicates(seq) == \A i, j \in DOMAIN seq : i # j => seq[i] # seq[j]

Min(S) == CHOOSE x \in S : \A y \in S : x <= y

\* what the loop reads of every line of the diff d: whether MATCH_PATTERN
\* matches it, the name it declares, whether that name contains "test", and
\* whether the line starts with + or -
RECURSIVE LineInfoFrom(_, _)
LineInfoFrom(d, k) ==
    IF k > Len(d) THEN <<>>
    ELSE LET match == MatchPattern(d[k])
             name  == Strip(match.group)
         IN  <<[matched  |-> match.matched,
                name     |-> name,
                testDecl |-> match.matched /\ Contains(LowerStr(name), TestStr),
                change   |-> IsChangeLine(d[k])]>>
             \o LineInfoFrom(d, k + 1)

LineInfo(d) == LineInfoFrom(d, 1)

\* the name of the last test declaration above line k (<<>> when there is none)
CursorAt(info, k) ==
    LET decls == {j \in 1..(k - 1) : info[j].testDecl}
    IN  IF decls = {} THEN <<>>
        ELSE info[CHOOSE j \in decls : \A h \in decls : h <= j].name

\* the added or removed lines that are no test declarations and lie below a
\* declaration of name, before the next test declaration
ChangeLines(info, name) ==
    {k \in DOMAIN info : /\ info[k].change
                         /\ ~info[k].testDecl
                         /\ name # <<>>
                         /\ CursorAt(info, k) = name}

\* the lines that declare name
DeclarationLines(info, name) ==
    {k \in DOMAIN info : info[k].matched /\ info[k].name = name}

\* C6 as stated: the list returned by get_changed_names has no duplicates and
\* its names are in the order in which they first occur as declaration names
\* in the diff.
C6_DeclarationOrder ==
    pc = "scanned" =>
        LET info == LineInfo(diff)
        IN  /\ NoDuplicates(scanned)
            /\ \A i, j \in DOMAIN scanned :
                   i < j => /\ DeclarationLines(info, scanned[i]) # {}
                            /\ DeclarationLines(info, scanned[j]) # {}
                            /\ Min(DeclarationLines(info, scanned[i]))
                                   < Min(DeclarationLines(info, scanned[j]))

\* C6 amended: the list returned by get_changed_names has no duplicates and
\* its names are in the order in which each name first has an added or removed
\* line counted for it.
C6_FirstChangeOrder ==
    pc = "scanned" =>
        LET info == LineInfo(diff)
        IN  /\ NoDuplicates(scanned)
            /\ \A i, j \in DOMAIN scanned :
                   i < j => /\ ChangeLines(info, scanned[i]) # {}
                            /\ ChangeLines(info, scanned[j]) # {}
                            /\ Min(ChangeLines(info, scanned[i]))
                                   < Min(ChangeLines(info, scanned[j]))

\* two names returned in the reverse of the order of their first declarations
C6_Witness ==
    /\ pc = "scanned"
    /\ Len(scanned) = 2
    /\ LET info == LineInfo(diff)
       IN  /\ Min(DeclarationLines(info, scanned[2]))
                  < Min(DeclarationLines(info, scanned[1]))
           /\ Min(ChangeLines(info, scanned[1])) < Min(ChangeLines(info, scanned[2]))

\* C7: every name get_changed_names returns contains "test" whatever the
\* case; a declared name without "test" is never returned, also when added or
\* removed lines follow it; a diff with no declaration line yields the empty
\* list.
C7_OnlyTestNames ==
    pc = "scanned" =>
        LET info == LineInfo(diff)
        IN  /\ \A i \in DOMAIN scanned : Contains(LowerStr(scanned[i]), TestStr)
            /\ \A k \in DOMAIN diff :
                   (info[k].matched /\ ~Contains(LowerStr(info[k].name), TestStr))
                   => \A i \in DOMAIN scanned : scanned[i] # info[k].name
            /\ (\A k \in DOMAIN diff : ~info[k].matched) => scanned = <<>>

\* a declaration of a name without "test", an added line right below it, and
\* no test declaration above them: nothing is returned
C7_Witness ==
    /\ pc = "scanned"
    /\ scanned = <<>>
    /\ LET info == LineInfo(diff)
       IN  \E k \in DOMAIN diff :
               /\ info[k].matched
               /\ info[k].name = help
               /\ k < Len(diff)
               /\ info[k + 1].change
               /\ ~info[k + 1].matched

\* C10: a test declaration line only moves the cursor, also when it starts
\* with + or -: every returned name has an added or removed line that is no
\* test declaration between its declaration and the next test declaration,
\* and a diff whose only added or removed lines are test declarations yields
\* the empty list.
C10_DeclarationNotCounted ==
    pc = "scanned" =>
        LET info == LineInfo(diff)
        IN  /\ \A i \in DOMAIN scanned : ChangeLines(info, scanned[i]) # {}
            /\ (\A k \in DOMAIN diff : info[k].change => info[k].testDecl)
                   => scanned = <<>>

\* an added test declaration line under another test declaration, and no
\* other added or removed line
C10_Witness ==
    /\ pc = "scanned"
    /\ scanned = <<>>
    /\ LET info == LineInfo(diff)
       IN  /\ \E k \in DOMAIN diff :
                  info[k].change /\ info[k].testDecl /\ CursorAt(info, k) # <<>>
           /\ \A k \in DOMAIN diff : info[k].change => info[k].testDecl

\* the pattern alone, anchored: it matches at the start of the name or right
\* after a "/"
AnchoredMatch(pattern, name) == Search(AnchorPrefix \o Translate(pattern), name)

\* C8: _is_test_file accepts a file name only when some pattern of the
\* convention, whatever its position, matches at the start of the name or
\* right after a "/".
C8_EveryPatternAnchored ==
    (pc = "matched" /\ is_test) =>
        \E k \in DOMAIN python_files : AnchoredMatch(python_files[k], file_path)

KeySet(d) == {d[i].key : i \in DOMAIN d}

\* C5: with no arguments filter_for_arguments returns the map it was given;
\* otherwise it returns exactly the entries whose key contains one of the
\* arguments, each with its names.
C5_FilterForArguments ==
    pc = "filtered" =>
        IF config_args = <<>>
        THEN filtered = changed_files
        ELSE /\ KeySet(filtered) =
                    {k \in KeySet(changed_files) :
                        \E i \in DOMAIN config_args : Contains(k, config_args[i])}
             /\ NoDuplicates(DictKeys(filtered))
             /\ \A k \in KeySet(filtered) :
                    DictGet(filtered, k) = DictGet(changed_files, k)

\* two arguments, of which one matches a key and one matches none, and a map
\* that loses an entry
C5_Witness ==
    /\ pc = "filtered"
    /\ Len(config_args) = 2
    /\ config_args[1] # config_args[2]
    /\ filtered # <<>>
    /\ Len(filtered) < Len(changed_files)

\* the record's path is a test file by the convention
IsTestPath(path) == _is_test_file(Basename(path), python_files)

\* the old path of the renamed record r is a key set by a modified or an
\* added record
OldKeySetEarlier(r) ==
    \/ \E i \in DOMAIN modified :
           /\ IsTestPath(modified[i].a_path)
           /\ PathJoin(root_dir, modified[i].a_path) = PathJoin(root_dir, r.a_path)
    \/ \E i \in DOMAIN added :
           /\ IsTestPath(added[i].b_path)
           /\ PathJoin(root_dir, added[i].b_path) = PathJoin(root_dir, r.a_path)

RenamedAgainLater(i) ==
    \E j \in DOMAIN renamed :
        /\ j > i
        /\ IsTestPath(renamed[j].b_path)
        /\ PathJoin(root_dir, renamed[j].a_path) = PathJoin(root_dir, renamed[i].b_path)

C4_KeysAreTestFiles ==
    pc = "built" =>
        \A k \in KeySet(changed) :
            \/ \E i \in DOMAIN modified :
                   /\ k = PathJoin(root_dir, modified[i].a_path)
                   /\ _is_test_file(Basename(modified[i].a_path), python_files)
            \/ \E i \in DOMAIN added :
                   /\ k = PathJoin(root_dir, added[i].b_path)
                   /\ _is_test_file(Basename(added[i].b_path), python_files)
            \/ \E i \in DOMAIN renamed :
                   /\ k = PathJoin(root_dir, renamed[i].b_path)
                   /\ _is_test_file(Basename(renamed[i].b_path), python_files)

\* an added file that is no test file beside a changed test file
C4_Witness ==
    /\ pc = "built"
    /\ changed # <<>>
    /\ \E i \in DOMAIN added :
           ~_is_test_file(Basename(added[i].b_path), python_files)

\* some entry of the change set holds the item's path in its key and the
\* item's name or the name of its class among its names
SelectedBy(files, item) ==
    \E i \in DOMAIN files :
        /\ Contains(files[i].key, item.path)
        /\ \E k \in DOMAIN files[i].value :
               \/ files[i].value[k] = item.name
               \/ item.cls # NoClass /\ files[i].value[k] = item.cls

FirstIndex(seq, x) == Min({i \in DOMAIN seq : seq[i] = x})

\* C1: with --changed, the items list after pytest_collection_modifyitems
\* holds exactly the collected items the change set selects, once each, in
\* the order of their first occurrence.
C1_ItemsAreSelected ==
    (pc = "collected" /\ option_changed) =>
        /\ {items[i] : i \in DOMAIN items} =
               {collected[i] : i \in {j \in DOMAIN collected :
                                         SelectedBy(changed_files_and_funcs, collected[j])}}
        /\ NoDuplicates(items)
        /\ \A i, j \in DOMAIN items :
               i < j => FirstIndex(collected, items[i]) < FirstIndex(collected, items[j])

\* an item kept for the name of its class, and another item removed
C1_Witness ==
    /\ pc = "collected"
    /\ option_changed
    /\ Len(collected) = 2
    /\ Len(items) = 1
    /\ collected[1] # collected[2]
    /\ items[1].cls # NoClass
    /\ ~SelectedBy(changed_files_and_funcs, collected[1])

\* C2: no item of run is passed to pytest_deselected.
C2_RunDeselectedDisjoint ==
    (pc = "collected" /\ option_changed) =>
        {run[i] : i \in DOMAIN run} \cap {deselected[i] : i \in DOMAIN deselected} = {}

\* C9: the map pytest_collection_modifyitems computes has the keys and the
\* names of the map pytest_configure computed and displayed.
C9_SelectionUsesDisplayedMap ==
    (pc = "collected" /\ option_changed) =>
        {changed_files_and_funcs[i] : i \in DOMAIN changed_files_and_funcs}
            = {displayed[i] : i \in DOMAIN displayed}

====
